---- MODULE Spec2Model ----
(***************************************************************************)
(* A model of get_latest_build.py: the per-root scanner                    *)
(* (best_folder_candidate), the round-robin merger                         *)
(* (best_folder_candidates), the batching helper (grouper), the four       *)
(* validation checks and the selector (best_candidate).                    *)
(*                                                                         *)
(* Strings are sequences of symbols of a small alphabet; str.startswith is *)
(* the sequence-prefix test and the `in` operator is the contiguous        *)
(* subsequence test.  No symbol of an alphabet is a prefix of another one, *)
(* so both tests agree with the character-level ones.                      *)
(***************************************************************************)
EXTENDS Integers, Sequences, FiniteSets, TLC

VARIABLES
    fs,          \* the filesystem: one record per configured root
    gens,        \* best_folder_candidates: the per-root generators
    cyc,         \* best_folder_candidates: position of itertools.cycle
    mergerDone,  \* best_folder_candidates: the merged generator has finished
    yielded,     \* every item the merged generator has yielded, in order
    ittuple,     \* grouper: slots of izip_longest whose iterator is still live
    slot,        \* grouper: next slot of the tuple being built
    batch,       \* grouper: the tuple being built / handed to the selector
    todo,        \* best_candidate: rest of candidates_list
    cur,         \* best_candidate: candidate_path under validation
    step,        \* best_candidate: next check to call on cur (1..4)
    pc,          \* best_candidate: control position
    log,         \* calls of logger.exception, in order
    ran,         \* every check call of the run: <<path, check, outcome>>
    result,      \* value returned by best_candidate
    exc,         \* exception that left best_candidate, "" if none
    inp,         \* input of a check applied on its own
    out          \* outcome of a check applied on its own

vars == <<fs, gens, cyc, mergerDone, yielded, ittuple, slot, batch, todo, cur,
          step, pc, log, ran, result, exc, inp, out>>

(***************************************************************************)
(* Bounds of the model.                                                    *)
(***************************************************************************)
MaxPerRoot == 6
MaxRoots == 3
MaxNodes == 3
MaxLines == 3

(***************************************************************************)
(* String helpers.                                                         *)
(***************************************************************************)
startswith(s, p) ==
    /\ Len(p) <= Len(s)
    /\ \A i \in 1..Len(p) : s[i] = p[i]

contains(s, p) ==
    \E k \in 0..(Len(s) - Len(p)) : \A i \in 1..Len(p) : s[k + i] = p[i]

None == <<>>

(***************************************************************************)
(* validate_json_build.  A status document is                              *)
(*   [exists, ctime, nodes], nodes a sequence of [node, status, epochsecs] *)
(* in the iteration order of the parsed mapping.  Times are seconds.       *)
(***************************************************************************)
StaleSeconds == 3600

RECURSIVE json_loop_early_failed(_, _, _, _)
json_loop_early_failed(nodes, i, failed_to_build, start_build_time) ==
    IF i > Len(nodes)
    THEN IF failed_to_build # <<>> THEN "NodesFailedToBuild" ELSE "OK"
    ELSE IF nodes[i].status # "OK"
         THEN "NodesFailedToBuild"
         ELSE IF nodes[i].epochsecs - start_build_time > StaleSeconds
              THEN "NodeTimestampOutOfRange"
              ELSE json_loop_early_failed(nodes, i + 1, failed_to_build,
                                          start_build_time)

RECURSIVE json_loop(_, _, _, _)
json_loop(nodes, i, failed_to_build, start_build_time) ==
    IF i > Len(nodes)
    THEN IF failed_to_build # <<>> THEN "NodesFailedToBuild" ELSE "OK"
    ELSE LET failed == IF nodes[i].status # "OK"
                       THEN Append(failed_to_build, nodes[i].node)
                       ELSE failed_to_build
             build_delta == nodes[i].epochsecs - start_build_time
         IN  IF build_delta > StaleSeconds
             THEN "NodeTimestampOutOfRange"
             ELSE json_loop(nodes, i + 1, failed, start_build_time)

validate_json_build(doc) ==
    IF ~doc.exists
    THEN "WindowsError"
    ELSE json_loop(doc.nodes, 1, <<>>, doc.ctime)

(***************************************************************************)
(* validate_data_build_status.  A report is [exists, headers], headers a   *)
(* sequence of [text, cells]: the h1 headings in document order, each with *)
(* the label/status/log triples that follow it up to the next heading.     *)
(***************************************************************************)
RECURSIVE cells_after(_, _)
cells_after(headers, i) ==
    IF i > Len(headers) THEN <<>>
    ELSE headers[i].cells \o cells_after(headers, i + 1)

put(db, key, value) ==
    [k \in DOMAIN db \cup {key} |-> IF k = key THEN value ELSE db[k]]

data_verdict(data_db) ==
    IF Cardinality(DOMAIN data_db) # 2
    THEN "DataFailedToBuild"
    ELSE IF \E n \in DOMAIN data_db : data_db[n] # "OK"
         THEN "DataFailedToBuild"
         ELSE "OK"

RECURSIVE data_loop(_, _, _)
data_loop(headers, i, data_db) ==
    IF i > Len(headers)
    THEN data_verdict(data_db)
    ELSE IF headers[i].text = "Data Build Status"
         THEN LET tds == cells_after(headers, i)
              IN  IF Len(tds) < 2
                  THEN "AttributeError"
                  ELSE data_loop(headers, i + 1,
                                 put(put(data_db, tds[1].name, tds[1].status),
                                     tds[2].name, tds[2].status))
         ELSE IF headers[i].text = "Build Status"
              THEN data_verdict(data_db)
              ELSE data_loop(headers, i + 1, data_db)

validate_data_build_status(doc) ==
    IF ~doc.exists
    THEN "IOError"
    ELSE data_loop(doc.headers, 1, <<>>)

(***************************************************************************)
(* check_versions.  A ledger is [exists, lines], each line a string.       *)
(***************************************************************************)
Terminator == <<"ITEMS_BELOW_HERE_NOT_SW_RELEASED">>
NullVersion == <<"00.00.00.00">>
PTPC_ARM == <<"P", "TPC_ARM">>
TPC_ARM == <<"TPC_ARM">>

RECURSIVE versions_loop_no_break(_, _)
versions_loop_no_break(lines, i) ==
    IF i > Len(lines) THEN "OK"
    ELSE IF /\ contains(lines[i], NullVersion)
            /\ ~(startswith(lines[i], PTPC_ARM) \/ startswith(lines[i], TPC_ARM))
            /\ ~startswith(lines[i], Terminator)
         THEN "NullVersionsFound"
         ELSE versions_loop_no_break(lines, i + 1)

RECURSIVE versions_loop(_, _)
versions_loop(lines, i) ==
    IF i > Len(lines) THEN "OK"
    ELSE IF startswith(lines[i], Terminator)
         THEN "OK"
         ELSE IF /\ contains(lines[i], NullVersion)
                 /\ ~(startswith(lines[i], PTPC_ARM) \/ startswith(lines[i], TPC_ARM))
              THEN "NullVersionsFound"
              ELSE versions_loop(lines, i + 1)

check_versions(doc) ==
    IF ~doc.exists
    THEN "IOError"
    ELSE versions_loop(doc.lines, 1)

(***************************************************************************)
(* check_local_mods.  The status command ends with                         *)
(*   [started, returncode]: started is FALSE when the working directory    *)
(* cannot be entered (subprocess raises WindowsError).  check_output       *)
(* returns for returncode 0 and raises CalledProcessError otherwise; the   *)
(* handler returns for returncode 1 only, and after any other returncode   *)
(* the raise statement reads cmd_output, which was never bound.            *)
(***************************************************************************)
check_local_mods_any_error_clean(tool) ==
    IF ~tool.started THEN "WindowsError"
    ELSE IF tool.returncode = 0 THEN "LocalModificationsFound"
    ELSE "OK"

check_local_mods(tool) ==
    IF ~tool.started THEN "WindowsError"
    ELSE IF tool.returncode = 0 THEN "LocalModificationsFound"
    ELSE IF tool.returncode = 1 THEN "OK"
    ELSE "UnboundLocalError"

(***************************************************************************)
(* The files of one candidate directory.  An entry of a listing carries in *)
(* `content` the name of what the directory holds; Content gives, for each *)
(* such name, the four documents the checks read.                          *)
(***************************************************************************)
GoodJson ==
    [exists |-> TRUE, ctime |-> 10000,
     nodes |-> << [node |-> "n1", status |-> "OK", epochsecs |-> 10000],
                  [node |-> "n2", status |-> "OK", epochsecs |-> 13600] >>]

GoodHtml ==
    [exists |-> TRUE,
     headers |-> << [text |-> "Summary Status", cells |-> <<>>],
                    [text |-> "Data Build Status",
                     cells |-> << [name |-> "cfgA", status |-> "OK"],
                                  [name |-> "cfgB", status |-> "OK"] >>],
                    [text |-> "MatlabSys Compiled Status", cells |-> <<>>],
                    [text |-> "Build Status",
                     cells |-> << [name |-> "n1", status |-> "OK"] >>] >>]

GoodLedger ==
    [exists |-> TRUE,
     lines |-> << <<"MAIN_APP", " ", "01.02.03.04">>,
                  <<"P", "TPC_ARM", "_CORE", " ", "00.00.00.00">>,
                  <<"ITEMS_BELOW_HERE_NOT_SW_RELEASED">>,
                  <<"X", " ", "00.00.00.00">> >>]

GoodTool == [started |-> TRUE, returncode |-> 1]

Good == [json |-> GoodJson, html |-> GoodHtml, ledger |-> GoodLedger, tool |-> GoodTool]

FailedNodes ==
    << [node |-> "n1", status |-> "OK", epochsecs |-> 10000],
       [node |-> "n2", status |-> "FAILED", epochsecs |-> 10060] >>

StaleNodes ==
    << [node |-> "n1", status |-> "FAILED", epochsecs |-> 10000],
       [node |-> "n2", status |-> "OK", epochsecs |-> 13601] >>

FailedHeaders ==
    << [text |-> "Data Build Status",
        cells |-> << [name |-> "cfgA", status |-> "OK"],
                     [name |-> "cfgB", status |-> "FAILED"] >>],
       [text |-> "Build Status", cells |-> <<>>] >>

ShortHeaders ==
    << [text |-> "Summary Status", cells |-> <<>>],
       [text |-> "Data Build Status",
        cells |-> << [name |-> "cfgA", status |-> "OK"] >>] >>

NullLines ==
    << <<"P", "TPC_ARM", "_CORE", " ", "00.00.00.00">>,
       <<"MAIN_APP", " ", "00.00.00.00">>,
       <<"ITEMS_BELOW_HERE_NOT_SW_RELEASED">> >>

Content(c) ==
    CASE c = "good" -> Good
      [] c = "nodes_failed" -> [Good EXCEPT !.json.nodes = FailedNodes]
      [] c = "stale" -> [Good EXCEPT !.json.nodes = StaleNodes]
      [] c = "no_json" -> [Good EXCEPT !.json.exists = FALSE]
      [] c = "data_failed" -> [Good EXCEPT !.html.headers = FailedHeaders]
      [] c = "data_none" -> [Good EXCEPT !.html.headers = <<>>]
      [] c = "data_short" -> [Good EXCEPT !.html.headers = ShortHeaders]
      [] c = "null_version" -> [Good EXCEPT !.ledger.lines = NullLines]
      [] c = "no_ledger" -> [Good EXCEPT !.ledger.exists = FALSE]
      [] c = "local_mods" -> [Good EXCEPT !.tool.returncode = 0]
      [] c = "tool_error" -> [Good EXCEPT !.tool.returncode = 2]
      [] c = "nodes_and_versions" ->
             [Good EXCEPT !.json.nodes = FailedNodes, !.ledger.lines = NullLines]

Rotations ==
    { << "local_mods", "data_failed", "null_version", "nodes_failed", "stale",
         "nodes_and_versions", "no_json", "no_ledger", "data_none" >>,
      << "local_mods", "tool_error", "nodes_failed" >>,
      << "null_version", "data_failed", "data_short" >> }

(***************************************************************************)
(* Configuration.                                                          *)
(***************************************************************************)
AUTOBUILD_PATH == << "HQ-ENG4-2008R2E-builds", "SWAUTOBUILD4-builds" >>

FOLDER_MATCH == << <<"g7.0_">>, <<"A70_">>, <<"emake_", "g7.0_">> >>

(***************************************************************************)
(* The prefix list the scanner reads: the module-level FOLDER_MATCH, or,   *)
(* where the scanner is examined on its own, the list given as its input.  *)
(***************************************************************************)
folder_match == IF pc = "scan" THEN inp ELSE FOLDER_MATCH

(***************************************************************************)
(* Filesystems.  A root is [reachable, listing]; a listing is the result   *)
(* of os.listdir, in the order the platform gives it, of entries           *)
(* [name, isdir, mtime, content].  Candidate j of a root is its j-th       *)
(* newest qualifying directory; the candidates from goodFrom on hold a     *)
(* build that passes, the others hold failing builds taken in rotation.    *)
(***************************************************************************)
Digits == << "1", "2", "3", "4", "5", "6", "7", "8", "9", "10", "11" >>

Layouts == { "interleaved", "first_newest", "last_newest", "ties" }

Mtime(layout, r, j) ==
    CASE layout = "interleaved" ->
             (MaxPerRoot + 1 - j) * (MaxRoots + 2) + (MaxRoots + 1 - r)
      [] layout = "first_newest" ->
             (MaxRoots + 1 - r) * (MaxPerRoot + 2) + (MaxPerRoot + 1 - j)
      [] layout = "last_newest" ->
             r * (MaxPerRoot + 2) + (MaxPerRoot + 1 - j)
      [] layout = "ties" -> MaxPerRoot + 1 - j

RootOptions ==
    { [reachable |-> FALSE, count |-> 0, goodFrom |-> 1] }
    \cup { [reachable |-> TRUE, count |-> c, goodFrom |-> g] :
               c \in 0..MaxPerRoot, g \in 1..(MaxPerRoot + 1) }

CandidateEntry(layout, rot, r, j, goodFrom) ==
    [name |-> FOLDER_MATCH[(j % 3) + 1] \o << Digits[j] >>,
     isdir |-> TRUE,
     mtime |-> Mtime(layout, r, j),
     content |-> IF j >= goodFrom THEN "good"
                 ELSE rot[((r + j) % Len(rot)) + 1]]

MakeRoot(layout, rot, r, opt) ==
    [reachable |-> opt.reachable,
     listing |->
        IF ~opt.reachable THEN <<>>
        ELSE << [name |-> <<"g7.0_", "f">>, isdir |-> FALSE,
                 mtime |-> 1000, content |-> "good"] >>
             \o [i \in 1..opt.count |->
                    CandidateEntry(layout, rot, r, opt.count + 1 - i, opt.goodFrom)]
             \o << [name |-> <<"x", "g7.0_", "1">>, isdir |-> TRUE,
                    mtime |-> 1000, content |-> "good"] >>]

FilesystemsWith(k, layouts) ==
    { [r \in 1..k |-> MakeRoot(layout, rot, r, opts[r])] :
          opts \in [1..k -> { o \in RootOptions : o.goodFrom <= o.count + 1 }],
          layout \in layouts, rot \in Rotations }

Filesystems(k) == FilesystemsWith(k, Layouts)

(***************************************************************************)
(* Platform primitives on the filesystem.  A path is <<root, name>>.       *)
(***************************************************************************)
join(top_level, entry) == << top_level, entry >>

stat(path) ==
    LET listing == fs[path[1]].listing
    IN  listing[CHOOSE i \in DOMAIN listing : listing[i].name = path[2]]

st_mtime(path) == stat(path).mtime

isdir(path) == stat(path).isdir

files(path) == Content(stat(path).content)

(***************************************************************************)
(* list.sort(key=st_mtime, reverse=True): stable, descending.  The element *)
(* at position p of the result is the one with p - 1 elements before it:   *)
(* those with a larger key, and those with the same key that stood earlier *)
(* in the list.                                                            *)
(***************************************************************************)
sort_oldest_first(paths) ==
    CHOOSE sorted \in
        { [p \in DOMAIN v |->
              v[CHOOSE j \in DOMAIN v :
                    Cardinality({ i \in DOMAIN v :
                                    \/ st_mtime(v[i]) < st_mtime(v[j])
                                    \/ /\ st_mtime(v[i]) = st_mtime(v[j])
                                       /\ i < j }) + 1 = p]] :
          v \in { paths } } : TRUE

sort_newest_first(paths) ==
    CHOOSE sorted \in
        { [p \in DOMAIN v |->
              v[CHOOSE j \in DOMAIN v :
                    Cardinality({ i \in DOMAIN v :
                                    \/ st_mtime(v[i]) > st_mtime(v[j])
                                    \/ /\ st_mtime(v[i]) = st_mtime(v[j])
                                       /\ i < j }) + 1 = p]] :
          v \in { paths } } : TRUE

(***************************************************************************)
(* best_folder_candidate: the directories one root's generator will yield. *)
(***************************************************************************)
RECURSIVE match_loop(_, _, _)
match_loop(top_level, k, dirs) ==
    LET dir_list == fs[top_level].listing
        np == Len(folder_match)
    IN  IF k > Len(dir_list) * np THEN dirs
        ELSE LET entry == dir_list[((k - 1) \div np) + 1].name
                 pattern == folder_match[((k - 1) % np) + 1]
                 abs_path == join(top_level, entry)
             IN  IF startswith(entry, pattern) /\ isdir(abs_path)
                 THEN match_loop(top_level, k + 1, Append(dirs, abs_path))
                 ELSE match_loop(top_level, k + 1, dirs)

best_folder_candidate_unsorted(top_level) ==
    IF ~fs[top_level].reachable
    THEN <<>>
    ELSE match_loop(top_level, 1, <<>>)

best_folder_candidate(top_level) ==
    IF ~fs[top_level].reachable
    THEN <<>>
    ELSE sort_newest_first(match_loop(top_level, 1, <<>>))

(***************************************************************************)
(* best_folder_candidates: one next() of the merged generator.  A per-root *)
(* generator runs its body at its first next().  StopIteration raised by   *)
(* generator.next() leaves the merged generator's body, which ends it.     *)
(***************************************************************************)
NewGenerators == [r \in DOMAIN fs |-> [started |-> FALSE, dirs |-> <<>>]]

best_folder_candidates_next ==
    IF mergerDone \/ Len(fs) = 0
    THEN [stop |-> TRUE, item |-> None, gens |-> gens, cyc |-> cyc, log |-> log]
    ELSE LET g == IF gens[cyc].started THEN gens[cyc]
                  ELSE [started |-> TRUE, dirs |-> best_folder_candidate(cyc)]
             logged == IF ~gens[cyc].started /\ ~fs[cyc].reachable
                       THEN Append(log, [path |-> << cyc >>, err |-> "WindowsError"])
                       ELSE log
         IN  IF g.dirs = <<>>
             THEN [stop |-> TRUE, item |-> None,
                   gens |-> [gens EXCEPT ![cyc] = g], cyc |-> cyc, log |-> logged]
             ELSE [stop |-> FALSE, item |-> Head(g.dirs),
                   gens |-> [gens EXCEPT ![cyc] = [g EXCEPT !.dirs = Tail(g.dirs)]],
                   cyc |-> (cyc % Len(fs)) + 1, log |-> logged]

(***************************************************************************)
(* grouper(best_folder_candidates(), 10): izip_longest over ten references *)
(* to the one merged generator, filled with None.                          *)
(***************************************************************************)
GrouperNum == 10

Filled(item) ==
    /\ batch' = Append(batch, item)
    /\ IF slot = GrouperNum
       THEN slot' = 1 /\ pc' = "sort"
       ELSE slot' = slot + 1 /\ pc' = pc
    /\ UNCHANGED result

grouper_cycle_forever ==
    /\ pc = "group"
    /\ IF slot \notin ittuple
       THEN /\ Filled(None)
            /\ UNCHANGED <<gens, cyc, mergerDone, yielded, log, ittuple>>
       ELSE \E m \in { best_folder_candidates_next } :
                IF m.stop
                THEN UNCHANGED <<gens, cyc, mergerDone, yielded, log, ittuple,
                                 batch, slot, pc, result>>
                ELSE /\ gens' = m.gens
                     /\ cyc' = m.cyc
                     /\ log' = m.log
                     /\ mergerDone' = m.stop
                     /\ ittuple' = ittuple
                     /\ yielded' = Append(yielded, m.item)
                     /\ Filled(m.item)
    /\ UNCHANGED <<fs, todo, cur, step, ran, exc, inp, out>>

grouper ==
    /\ pc = "group"
    /\ IF slot \notin ittuple
       THEN /\ Filled(None)
            /\ UNCHANGED <<gens, cyc, mergerDone, yielded, log, ittuple>>
       ELSE \E m \in { best_folder_candidates_next } :
                /\ gens' = m.gens
                /\ cyc' = m.cyc
                /\ log' = m.log
                /\ mergerDone' = m.stop
                /\ IF m.stop
                   THEN /\ ittuple' = ittuple \ {slot}
                        /\ yielded' = yielded
                        /\ IF ittuple' = {}
                           THEN /\ pc' = "returned"
                                /\ result' = None
                                /\ UNCHANGED <<batch, slot>>
                           ELSE Filled(None)
                   ELSE /\ ittuple' = ittuple
                        /\ yielded' = Append(yielded, m.item)
                        /\ Filled(m.item)
    /\ UNCHANGED <<fs, todo, cur, step, ran, exc, inp, out>>

(***************************************************************************)
(* best_candidate.                                                         *)
(***************************************************************************)
Caught ==
    { "NodesFailedToBuild", "NodeTimestampOutOfRange", "DataFailedToBuild",
      "LocalModificationsFound", "NullVersionsFound", "IOError", "WindowsError" }

sort_batch_unsorted ==
    /\ pc = "sort"
    /\ IF \E i \in DOMAIN batch : batch[i] = None
       THEN /\ pc' = "raised"
            /\ exc' = "TypeError"
            /\ todo' = todo
       ELSE /\ pc' = "for"
            /\ exc' = exc
            /\ todo' = batch
    /\ UNCHANGED <<fs, gens, cyc, mergerDone, yielded, ittuple, slot, batch, cur,
                   step, log, ran, result, inp, out>>

sort_batch ==
    /\ pc = "sort"
    /\ IF \E i \in DOMAIN batch : batch[i] = None
       THEN /\ pc' = "raised"
            /\ exc' = "TypeError"
            /\ todo' = todo
       ELSE /\ pc' = "for"
            /\ exc' = exc
            /\ todo' = sort_newest_first(batch)
    /\ UNCHANGED <<fs, gens, cyc, mergerDone, yielded, ittuple, slot, batch, cur,
                   step, log, ran, result, inp, out>>

for_candidate ==
    /\ pc = "for"
    /\ IF todo = <<>>
       THEN /\ pc' = "group"
            /\ batch' = <<>>
            /\ UNCHANGED <<todo, cur, step>>
       ELSE /\ pc' = "try"
            /\ cur' = Head(todo)
            /\ todo' = Tail(todo)
            /\ step' = 1
            /\ batch' = batch
    /\ UNCHANGED <<fs, gens, cyc, mergerDone, yielded, ittuple, slot, log, ran,
                   result, exc, inp, out>>

try_except_fall_through(check, outcome) ==
    /\ ran' = Append(ran, << cur, check, outcome >>)
    /\ IF outcome = "OK" \/ outcome \in Caught
       THEN /\ log' = IF outcome = "OK" THEN log
                      ELSE Append(log, [path |-> cur, err |-> outcome])
            /\ IF step = 4
               THEN pc' = "good" /\ step' = step
               ELSE pc' = pc /\ step' = step + 1
            /\ exc' = exc
       ELSE /\ pc' = "raised"
            /\ exc' = outcome
            /\ UNCHANGED <<log, step>>
    /\ UNCHANGED <<fs, gens, cyc, mergerDone, yielded, ittuple, slot, batch, todo,
                   cur, result, inp, out>>

try_except_break(check, outcome) ==
    /\ ran' = Append(ran, << cur, check, outcome >>)
    /\ IF outcome = "OK"
       THEN /\ IF step = 4
               THEN pc' = "good" /\ step' = step
               ELSE pc' = pc /\ step' = step + 1
            /\ UNCHANGED <<log, exc, batch, todo>>
       ELSE IF outcome \in Caught
            THEN /\ log' = Append(log, [path |-> cur, err |-> outcome])
                 /\ pc' = "group"
                 /\ batch' = <<>>
                 /\ todo' = <<>>
                 /\ UNCHANGED <<step, exc>>
            ELSE /\ pc' = "raised"
                 /\ exc' = outcome
                 /\ UNCHANGED <<log, step, batch, todo>>
    /\ UNCHANGED <<fs, gens, cyc, mergerDone, yielded, ittuple, slot,
                   cur, result, inp, out>>

try_except(check, outcome) ==
    /\ ran' = Append(ran, << cur, check, outcome >>)
    /\ IF outcome = "OK"
       THEN /\ IF step = 4
               THEN pc' = "good" /\ step' = step
               ELSE pc' = pc /\ step' = step + 1
            /\ UNCHANGED <<log, exc>>
       ELSE IF outcome \in Caught
            THEN /\ log' = Append(log, [path |-> cur, err |-> outcome])
                 /\ pc' = "for"
                 /\ UNCHANGED <<step, exc>>
            ELSE /\ pc' = "raised"
                 /\ exc' = outcome
                 /\ UNCHANGED <<log, step>>
    /\ UNCHANGED <<fs, gens, cyc, mergerDone, yielded, ittuple, slot, batch, todo,
                   cur, result, inp, out>>

call_validate_json_build ==
    /\ pc = "try" /\ step = 1
    /\ try_except("validate_json_build", validate_json_build(files(cur).json))

call_validate_data_build_status ==
    /\ pc = "try" /\ step = 2
    /\ try_except("validate_data_build_status",
                  validate_data_build_status(files(cur).html))

call_check_versions ==
    /\ pc = "try" /\ step = 3
    /\ try_except("check_versions", check_versions(files(cur).ledger))

call_check_local_mods ==
    /\ pc = "try" /\ step = 4
    /\ try_except("check_local_mods", check_local_mods(files(cur).tool))

return_candidate_and_continue ==
    /\ pc = "good"
    /\ pc' = "for"
    /\ result' = cur
    /\ UNCHANGED <<fs, gens, cyc, mergerDone, yielded, ittuple, slot, batch, todo,
                   cur, step, log, ran, exc, inp, out>>

return_candidate ==
    /\ pc = "good"
    /\ pc' = "returned"
    /\ result' = cur
    /\ UNCHANGED <<fs, gens, cyc, mergerDone, yielded, ittuple, slot, batch, todo,
                   cur, step, log, ran, exc, inp, out>>

(***************************************************************************)
(* Spec: best_candidate() on the two configured roots.                     *)
(***************************************************************************)
Start(p) ==
    /\ gens = NewGenerators
    /\ cyc = 1
    /\ mergerDone = FALSE
    /\ yielded = <<>>
    /\ ittuple = 1..GrouperNum
    /\ slot = 1
    /\ batch = <<>>
    /\ todo = <<>>
    /\ cur = None
    /\ step = 1
    /\ pc = p
    /\ log = <<>>
    /\ ran = <<>>
    /\ result = None
    /\ exc = ""
    /\ out = ""

Init ==
    /\ fs \in Filesystems(Len(AUTOBUILD_PATH))
    /\ inp = <<>>
    /\ Start("group")

Next ==
    \/ grouper
    \/ sort_batch
    \/ for_candidate
    \/ call_validate_json_build
    \/ call_validate_data_build_status
    \/ call_check_versions
    \/ call_check_local_mods
    \/ return_candidate

Spec == Init /\ [][Next]_vars

(***************************************************************************)
(* SpecTwice: best_candidate() called a second time on the unchanged       *)
(* filesystem.  The second call builds its generators anew (line 253 and   *)
(* lines 91-93); `out` keeps the outcome of the first call and `inp` marks *)
(* the second one.                                                         *)
(***************************************************************************)
Outcome == [pc |-> pc, result |-> result, exc |-> exc]

SecondRun == << "second" >>

Fresh(generators, position, done) ==
    /\ gens' = generators
    /\ cyc' = position
    /\ mergerDone' = done
    /\ yielded' = <<>>
    /\ ittuple' = 1..GrouperNum
    /\ slot' = 1
    /\ batch' = <<>>
    /\ todo' = <<>>
    /\ cur' = None
    /\ step' = 1
    /\ pc' = "group"
    /\ log' = <<>>
    /\ ran' = <<>>
    /\ result' = None
    /\ exc' = ""

run_again_old_generators ==
    /\ pc \in { "returned", "raised" }
    /\ inp = <<>>
    /\ inp' = SecondRun
    /\ out' = Outcome
    /\ Fresh(gens, cyc, mergerDone)
    /\ UNCHANGED fs

run_again ==
    /\ pc \in { "returned", "raised" }
    /\ inp = <<>>
    /\ inp' = SecondRun
    /\ out' = Outcome
    /\ Fresh(NewGenerators, 1, FALSE)
    /\ UNCHANGED fs

InitTwice ==
    /\ fs \in FilesystemsWith(Len(AUTOBUILD_PATH), { "ties", "interleaved" })
    /\ inp = <<>>
    /\ Start("group")

NextTwice ==
    \/ Next
    \/ run_again

SpecTwice == InitTwice /\ [][NextTwice]_vars

(***************************************************************************)
(* SpecDeep: best_candidate on the two configured roots when each holds a  *)
(* batch's worth of candidates or one more, so that the run goes on to a   *)
(* second batch.  Failing builds fail with an error the selector catches.  *)
(***************************************************************************)
DeepRotation == << "nodes_failed", "data_failed", "null_version", "local_mods" >>

DeepMtime(layout, r, j) ==
    IF layout = "interleaved"
    THEN (GrouperNum + 2 - j) * 3 + (3 - r)
    ELSE (3 - r) * (GrouperNum + 2) + (GrouperNum + 2 - j)

DeepRoot(layout, r, count, goodFrom) ==
    [reachable |-> TRUE,
     listing |->
        [i \in 1..count |->
            LET j == count + 1 - i
            IN  [name |-> FOLDER_MATCH[(j % 3) + 1] \o << Digits[j] >>,
                 isdir |-> TRUE,
                 mtime |-> DeepMtime(layout, r, j),
                 content |-> IF j >= goodFrom THEN "good"
                             ELSE DeepRotation[((r + j) % Len(DeepRotation)) + 1]]]]

DeepFilesystems(n) ==
    { [r \in 1..Len(AUTOBUILD_PATH) |-> DeepRoot(layout, r, c[r], g[r])] :
          layout \in { "interleaved", "first_newest" },
          c \in [1..Len(AUTOBUILD_PATH) -> n..(n + 1)],
          g \in [1..Len(AUTOBUILD_PATH) -> 1..(n + 2)] }

InitDeep ==
    /\ fs \in DeepFilesystems(GrouperNum)
    /\ inp = <<>>
    /\ Start("group")

SpecDeep == InitDeep /\ [][Next]_vars

(***************************************************************************)
(* SpecLive: best_candidate with 0..MaxRoots roots configured, under weak  *)
(* fairness of its steps: the one thread of control keeps running while it *)
(* has a step to take.  The first root holds any number of candidates, the *)
(* others are unreachable, empty or full.                                  *)
(***************************************************************************)
LiveOptions(r) ==
    { o \in RootOptions :
         /\ o.reachable => o.goodFrom = (IF o.count < 4 THEN o.count + 1 ELSE 4)
         /\ (r > 1 /\ o.reachable) => o.count \in { 0, MaxPerRoot } }

LiveFilesystems(n) ==
    UNION { { [r \in 1..k |-> MakeRoot("interleaved",
                                       << "nodes_failed", "null_version", "local_mods" >>,
                                       r, IF r = 1 THEN first ELSE others[r])] :
                  first \in LiveOptions(1), others \in [1..k -> LiveOptions(2)] } :
            k \in 0..n }

InitLive ==
    /\ fs \in LiveFilesystems(MaxRoots)
    /\ inp = <<>>
    /\ Start("group")

SpecLive == InitLive /\ [][Next]_vars /\ WF_vars(Next)

(***************************************************************************)
(* SpecMerger: list(best_folder_candidates(autobuild_path)) for a          *)
(* configuration of 0..MaxRoots roots.                                     *)
(***************************************************************************)
MergerFilesystems(n) ==
    UNION { { [r \in 1..k |-> MakeRoot(layout, << "nodes_failed" >>, r, opts[r])] :
                  opts \in [1..k -> { o \in RootOptions : o.goodFrom = 1 }],
                  layout \in { "interleaved", "ties" } } :
            k \in 0..n }

InitMerger ==
    /\ fs \in MergerFilesystems(MaxRoots)
    /\ inp = <<>>
    /\ Start("merge")

drain_merger ==
    /\ pc = "merge"
    /\ ~mergerDone
    /\ LET m == best_folder_candidates_next
       IN  /\ gens' = m.gens
           /\ cyc' = m.cyc
           /\ log' = m.log
           /\ mergerDone' = m.stop
           /\ yielded' = IF m.stop THEN yielded ELSE Append(yielded, m.item)
    /\ UNCHANGED <<fs, ittuple, slot, batch, todo, cur, step, pc, ran, result,
                   exc, inp, out>>

NextMerger == drain_merger

SpecMerger == InitMerger /\ [][NextMerger]_vars

(***************************************************************************)
(* SpecJson: validate_json_build on status documents of up to MaxNodes     *)
(* nodes, in every iteration order.                                        *)
(***************************************************************************)
SeqsUpTo(S, n) == UNION { [1..k -> S] : k \in 0..n }

JsonNodes ==
    { [node |-> n, status |-> s, epochsecs |-> t] :
          n \in { "n" }, s \in { "OK", "FAILED" },
          t \in { 6399, 10000, 13600, 13601 } }

JsonDocs ==
    { [exists |-> FALSE, ctime |-> 10000, nodes |-> <<>>] }
    \cup { [exists |-> TRUE, ctime |-> 10000,
            nodes |-> [i \in DOMAIN ns |-> [ns[i] EXCEPT !.node = Digits[i]]]] :
               ns \in SeqsUpTo(JsonNodes, MaxNodes) }

InitJson ==
    /\ fs = <<>>
    /\ inp \in JsonDocs
    /\ Start("json")

apply_validate_json_build ==
    /\ pc = "json"
    /\ pc' = "done"
    /\ out' = validate_json_build(inp)
    /\ UNCHANGED <<fs, gens, cyc, mergerDone, yielded, ittuple, slot, batch, todo,
                   cur, step, log, ran, result, exc, inp>>

NextJson == apply_validate_json_build

SpecJson == InitJson /\ [][NextJson]_vars

(***************************************************************************)
(* SpecScanner: best_folder_candidate on one reachable root that lists up  *)
(* to MaxEntries entries, under the configured prefix list and under a     *)
(* list in which one prefix begins with another.                           *)
(***************************************************************************)
MaxEntries == 3

ScanNames ==
    { <<"g7.0_", "1">>, <<"g7.0_", "x", "1">>, <<"A70_", "1">>,
      <<"x", "g7.0_", "1">> }

ScanEntries ==
    { [name |-> n, isdir |-> d, mtime |-> t, content |-> "good"] :
          n \in ScanNames, d \in BOOLEAN, t \in 1..2 }

ScanListings(n) ==
    { l \in SeqsUpTo(ScanEntries, n) :
         \A i, j \in DOMAIN l : l[i].name = l[j].name => i = j }

PrefixLists == { FOLDER_MATCH, << <<"g7.0_">>, <<"g7.0_", "x">> >> }

InitScanner ==
    /\ fs \in { << [reachable |-> TRUE, listing |-> l] >> : l \in ScanListings(MaxEntries) }
    /\ inp \in PrefixLists
    /\ Start("scan")

apply_best_folder_candidate ==
    /\ pc = "scan"
    /\ pc' = "done"
    /\ out' = best_folder_candidate(1)
    /\ UNCHANGED <<fs, gens, cyc, mergerDone, yielded, ittuple, slot, batch, todo,
                   cur, step, log, ran, result, exc, inp>>

NextScanner == apply_best_folder_candidate

SpecScanner == InitScanner /\ [][NextScanner]_vars

(***************************************************************************)
(* SpecVersions: check_versions on ledgers of up to MaxLines lines.        *)
(***************************************************************************)
LedgerLines ==
    { <<"MAIN_APP", " ", "01.02.03.04">>,
      <<"MAIN_APP", " ", "00.00.00.00">>,
      <<"P", "TPC_ARM", "_CORE", " ", "00.00.00.00">>,
      <<"TPC_ARM", "_CORE", " ", "00.00.00.00">>,
      <<"X", "P", "TPC_ARM", " ", "00.00.00.00">>,
      <<"ITEMS_BELOW_HERE_NOT_SW_RELEASED">>,
      <<" ", "ITEMS_BELOW_HERE_NOT_SW_RELEASED">>,
      <<"ITEMS_BELOW_HERE_NOT_SW_RELEASED", " ", "00.00.00.00">> }

Ledgers ==
    { [exists |-> FALSE, lines |-> <<>>] }
    \cup { [exists |-> TRUE, lines |-> ls] : ls \in SeqsUpTo(LedgerLines, MaxLines) }

InitVersions ==
    /\ fs = <<>>
    /\ inp \in Ledgers
    /\ Start("versions")

apply_check_versions ==
    /\ pc = "versions"
    /\ pc' = "done"
    /\ out' = check_versions(inp)
    /\ UNCHANGED <<fs, gens, cyc, mergerDone, yielded, ittuple, slot, batch, todo,
                   cur, step, log, ran, result, exc, inp>>

NextVersions == apply_check_versions

SpecVersions == InitVersions /\ [][NextVersions]_vars

(***************************************************************************)
(* What the design asks of a candidate, stated on the documents            *)
(* themselves and not through the checks' code.                            *)
(***************************************************************************)
Range(f) == { f[i] : i \in DOMAIN f }

Qualifies(e) ==
    e.isdir /\ \E p \in Range(FOLDER_MATCH) : startswith(e.name, p)

QualifyingOf(r) ==
    IF ~fs[r].reachable THEN {}
    ELSE { join(r, e.name) : e \in { x \in Range(fs[r].listing) : Qualifies(x) } }

AllCandidates == UNION { QualifyingOf(r) : r \in DOMAIN fs }

HasStaleNode(doc) ==
    \E i \in DOMAIN doc.nodes : doc.nodes[i].epochsecs > doc.ctime + 3600

NodesPass(doc) ==
    /\ doc.exists
    /\ ~HasStaleNode(doc)
    /\ \A i \in DOMAIN doc.nodes : doc.nodes[i].status = "OK"

DataPass(doc) ==
    /\ doc.exists
    /\ \E i \in DOMAIN doc.headers :
          /\ doc.headers[i].text = "Data Build Status"
          /\ \A j \in 1..(i - 1) :
                doc.headers[j].text \notin { "Data Build Status", "Build Status" }
          /\ Len(doc.headers[i].cells) = 2
          /\ doc.headers[i].cells[1].name # doc.headers[i].cells[2].name
          /\ \A c \in 1..2 : doc.headers[i].cells[c].status = "OK"

IsTerminator(line) == startswith(line, Terminator)

Offending(lines, i) ==
    /\ \A j \in 1..i : ~IsTerminator(lines[j])
    /\ contains(lines[i], NullVersion)
    /\ ~startswith(lines[i], PTPC_ARM)
    /\ ~startswith(lines[i], TPC_ARM)

VersionsPass(doc) ==
    /\ doc.exists
    /\ ~\E i \in DOMAIN doc.lines : Offending(doc.lines, i)

ToolClean(tool) == tool.started /\ tool.returncode = 1

PassesAll(path) ==
    /\ NodesPass(files(path).json)
    /\ DataPass(files(path).html)
    /\ VersionsPass(files(path).ledger)
    /\ ToolClean(files(path).tool)

Terminal == pc \in { "returned", "raised" }

Returned == pc = "returned" /\ result # None

CheckOrder ==
    << "validate_json_build", "validate_data_build_status", "check_versions",
       "check_local_mods" >>

CheckNo(check) == CHOOSE k \in 1..4 : CheckOrder[k] = check

C2_ReturnedPassedAll ==
    Returned =>
        /\ PassesAll(result)
        /\ \A k \in 1..4 : \E i \in DOMAIN ran : ran[i] = << result, CheckOrder[k], "OK" >>

C2_Witness ==
    /\ Returned
    /\ \E i \in DOMAIN ran : ran[i][1] # result /\ ran[i][2] = "check_local_mods"

(***************************************************************************)
(* C3 as stated: when some qualifying candidate under a reachable root     *)
(* passes every check, best_candidate ends by returning a path that passes *)
(* every check; it neither raises nor returns no result.                   *)
(***************************************************************************)
C3_ReturnsWhenSomePass ==
    (Terminal /\ \E c \in AllCandidates : PassesAll(c)) =>
        (Returned /\ PassesAll(result))

(***************************************************************************)
(* C4 as stated: when the run ends with the merged stream exhausted and no *)
(* candidate passing, best_candidate has returned no path and has raised   *)
(* no error.                                                               *)
(***************************************************************************)
C4_NoResultWithoutError ==
    (Terminal /\ mergerDone /\ \A c \in AllCandidates : ~PassesAll(c)) =>
        (pc = "returned" /\ result = None /\ exc = "")

(***************************************************************************)
(* C5 as stated: when best_folder_candidates has finished it has yielded   *)
(* every qualifying directory of every root exactly once.                  *)
(***************************************************************************)
C5_YieldsEachOnce ==
    mergerDone =>
        /\ Range(yielded) = AllCandidates
        /\ Len(yielded) = Cardinality(AllCandidates)

(***************************************************************************)
(* C6 as stated: with an unreachable root, whatever its position, the      *)
(* failure is logged and not propagated, and the finished merger has       *)
(* yielded every qualifying directory of the other roots exactly once.     *)
(***************************************************************************)
C6_UnreachableRootLosesNothing ==
    (mergerDone /\ \E r \in DOMAIN fs : ~fs[r].reachable) =>
        /\ exc = ""
        /\ \A c \in AllCandidates :
              Cardinality({ i \in DOMAIN yielded : yielded[i] = c }) = 1

(***************************************************************************)
(* C7: the checks of a candidate are called in the order node status, data *)
(* status, versions, local modifications; a check is called only right     *)
(* after the previous check returned normally on the same candidate; a     *)
(* rejected candidate is logged exactly once, with an error of its first   *)
(* failing check.                                                          *)
(***************************************************************************)
FirstFailing(path) ==
    IF ~NodesPass(files(path).json) THEN 1
    ELSE IF ~DataPass(files(path).html) THEN 2
    ELSE IF ~VersionsPass(files(path).ledger) THEN 3
    ELSE IF ~ToolClean(files(path).tool) THEN 4
    ELSE 0

ErrorsOf(k) ==
    CASE k = 1 -> { "NodesFailedToBuild", "NodeTimestampOutOfRange", "WindowsError" }
      [] k = 2 -> { "DataFailedToBuild", "IOError" }
      [] k = 3 -> { "NullVersionsFound", "IOError" }
      [] k = 4 -> { "LocalModificationsFound", "WindowsError" }
      [] OTHER -> {}

Rejected == { ran[i][1] : i \in { j \in DOMAIN ran : ran[j][3] \in Caught } }

LogsOf(path) == { i \in DOMAIN log : log[i].path = path }

C7_ChecksInOrderFirstFailureOnly ==
    /\ \A i \in DOMAIN ran :
          LET k == CheckNo(ran[i][2])
          IN  /\ k > 1 => (i > 1 /\ ran[i - 1] = << ran[i][1], CheckOrder[k - 1], "OK" >>)
              /\ k = 1 => (i > 1 => ran[i - 1][1] # ran[i][1])
    /\ \A c \in Rejected :
          /\ Cardinality(LogsOf(c)) = 1
          /\ \A i \in LogsOf(c) : log[i].err \in ErrorsOf(FirstFailing(c))
          /\ Cardinality({ i \in DOMAIN ran : ran[i][1] = c }) = FirstFailing(c)

C7_Witness ==
    \E c \in Rejected :
        /\ ~NodesPass(files(c).json)
        /\ ~VersionsPass(files(c).ledger)
        /\ \E i \in LogsOf(c) : log[i].err = "NodesFailedToBuild"
        /\ \E d \in Rejected : FirstFailing(d) = 3

(***************************************************************************)
(* C8: when some node of the status document completed more than 60        *)
(* minutes after the document's creation, validate_json_build fails with   *)
(* NodeTimestampOutOfRange whatever the statuses of the nodes are.         *)
(***************************************************************************)
C8_StaleTakesPrecedence ==
    (pc = "done" /\ inp.exists /\ HasStaleNode(inp)) =>
        out = "NodeTimestampOutOfRange"

C8_Witness ==
    /\ pc = "done"
    /\ out = "NodeTimestampOutOfRange"
    /\ Len(inp.nodes) = 3
    /\ inp.nodes[1].status = "FAILED" /\ inp.nodes[1].epochsecs = 10000
    /\ inp.nodes[2].status = "OK" /\ inp.nodes[2].epochsecs = 13601
    /\ inp.nodes[3].status = "FAILED"

(***************************************************************************)
(* C9: check_versions fails with NullVersionsFound exactly when a line     *)
(* before the first terminator line contains 00.00.00.00 and begins with   *)
(* neither PTPC_ARM nor TPC_ARM.                                           *)
(***************************************************************************)
C9_NullVersionsExactly ==
    (pc = "done" /\ inp.exists) =>
        (out = "NullVersionsFound"
            <=> \E i \in DOMAIN inp.lines : Offending(inp.lines, i))

C9_Witness ==
    /\ pc = "done"
    /\ out = "OK"
    /\ Len(inp.lines) = 3
    /\ startswith(inp.lines[1], PTPC_ARM) /\ contains(inp.lines[1], NullVersion)
    /\ IsTerminator(inp.lines[2])
    /\ inp.lines[3] = <<"MAIN_APP", " ", "00.00.00.00">>

(***************************************************************************)
(* C10 as stated: whenever the local modification check is called on a     *)
(* candidate whose status command does not end clean, the check fails with *)
(* LocalModificationsFound, the Selector logs it and goes on; nothing is   *)
(* raised to the caller.                                                   *)
(***************************************************************************)
C10_NotCleanIsLocalModifications ==
    \A i \in DOMAIN ran :
        (ran[i][2] = "check_local_mods" /\ ~ToolClean(files(ran[i][1]).tool)) =>
            /\ ran[i][3] = "LocalModificationsFound"
            /\ pc # "raised"
            /\ \E j \in DOMAIN log :
                  log[j] = [path |-> ran[i][1], err |-> "LocalModificationsFound"]

(***************************************************************************)
(* C11: the candidate returned is the first one, in the order in which     *)
(* candidates are validated, that passes every check: every candidate      *)
(* validated before it fails some check, and once a candidate has passed   *)
(* its fourth check no further check is called and it is what is returned. *)
(***************************************************************************)
Validated == { ran[i][1] : i \in DOMAIN ran }

PassedAt(i) == ran[i][2] = "check_local_mods" /\ ran[i][3] = "OK"

C11_FirstPassingReturnedAtOnce ==
    /\ \A i \in DOMAIN ran : PassedAt(i) => i = Len(ran)
    /\ (\E i \in DOMAIN ran : PassedAt(i)) =>
          /\ pc \in { "good", "returned" }
          /\ cur = ran[Len(ran)][1]
          /\ pc = "returned" => result = cur
          /\ \A c \in Validated \ { cur } : ~PassesAll(c)
    /\ Returned => ran # <<>> /\ PassedAt(Len(ran)) /\ ran[Len(ran)][1] = result

C11_Witness ==
    /\ Returned
    /\ Cardinality(Validated) >= 3
    /\ \E c \in Range(batch) \ Validated : PassesAll(c)

(***************************************************************************)
(* C12: inside the batch being processed candidates are validated in       *)
(* descending order of modification time: of two candidates of the batch,  *)
(* the strictly newer one is validated first.                              *)
(***************************************************************************)
FirstCall(c) == CHOOSE i \in DOMAIN ran : ran[i][1] = c /\ ran[i][2] = CheckOrder[1]

Processing == pc \in { "for", "try", "good" } \/ Returned

C12_BatchValidatedNewestFirst ==
    Processing =>
        \A c \in Range(batch) \cap Validated :
            \A d \in Range(batch) :
                st_mtime(d) > st_mtime(c) => (d \in Validated /\ FirstCall(d) < FirstCall(c))

C12_Witness ==
    /\ Processing
    /\ \E i, j \in DOMAIN batch :
          /\ i < j
          /\ batch[i] \in Validated /\ batch[j] \in Validated
          /\ st_mtime(batch[j]) > st_mtime(batch[i])
          /\ FirstCall(batch[j]) < FirstCall(batch[i])

C14_EachFailureLoggedOnce ==
    (Terminal /\ \A c \in AllCandidates : ~PassesAll(c)) =>
        \A c \in AllCandidates :
            /\ Cardinality({ i \in DOMAIN ran :
                                ran[i][1] = c /\ ran[i][2] = CheckOrder[1] }) <= 1
            /\ Cardinality(LogsOf(c)) = 1

(***************************************************************************)
(* C15 as stated: at no point is more than one pulled candidate waiting to *)
(* be validated.                                                           *)
(***************************************************************************)
C15_OnePulledAtATime ==
    Cardinality(Range(yielded) \ Validated) <= 1

(***************************************************************************)
(* C15 amended: candidates are pulled a batch at a time.  Every pulled     *)
(* candidate that is not of the current batch has been validated and       *)
(* rejected, and while a batch is being filled none of its candidates has  *)
(* been validated and no candidate of an earlier batch is left to          *)
(* validate.                                                               *)
(***************************************************************************)
C15_PulledBatchByBatch ==
    /\ \A c \in Range(yielded) \ Range(batch) : c \in Rejected
    /\ pc = "group" => (todo = <<>> /\ Range(batch) \cap Validated = {})

C15_Witness ==
    /\ pc = "group"
    /\ Len(yielded) > GrouperNum
    /\ batch # <<>>
    /\ batch[1] # None

(***************************************************************************)
(* C16 as stated: a batch holds at most one candidate of each configured   *)
(* root, hence at most as many candidates as there are roots.              *)
(***************************************************************************)
C16_BatchOnePerRoot ==
    /\ Cardinality({ i \in DOMAIN batch : batch[i] # None }) <= Len(fs)
    /\ \A r \in DOMAIN fs :
          Cardinality({ i \in DOMAIN batch : batch[i] # None /\ batch[i][1] = r }) <= 1

(***************************************************************************)
(* C17: best_candidate terminates for every finite configuration, also     *)
(* with no root configured and with every root unreachable or empty: every *)
(* run reaches a state in which it has returned or raised.                 *)
(***************************************************************************)
C17_Terminates == <>Terminal

C17_Witness ==
    /\ Terminal
    /\ Len(fs) >= 2
    /\ AllCandidates = {}
    /\ \E r \in DOMAIN fs : ~fs[r].reachable
    /\ \E r \in DOMAIN fs : fs[r].reachable

ScanQualifying ==
    { join(1, e.name) : e \in { e \in Range(fs[1].listing) :
                                   e.isdir /\ \E p \in Range(inp) : startswith(e.name, p) } }

(***************************************************************************)
(* C18 as stated: for a reachable root the scanner yields exactly the      *)
(* direct children that are directories and whose name begins with one of  *)
(* the configured prefixes, each exactly once whatever the prefix list,    *)
(* newest first.                                                           *)
(***************************************************************************)
C18_YieldsEachQualifyingOnce ==
    pc = "done" =>
        /\ Range(out) = ScanQualifying
        /\ \A i, j \in DOMAIN out : out[i] = out[j] => i = j
        /\ \A i, j \in DOMAIN out : i < j => st_mtime(out[i]) >= st_mtime(out[j])

(***************************************************************************)
(* C19 as stated: a candidate passes the node build status check only if   *)
(* every node completed within 60 minutes of the creation of the status    *)
(* document, before it as well as after it.                                *)
(***************************************************************************)
C19_PassesOnlyWithinWindow ==
    (pc = "done" /\ inp.exists /\ out = "OK") =>
        \A i \in DOMAIN inp.nodes :
            /\ inp.nodes[i].epochsecs - inp.ctime <= StaleSeconds
            /\ inp.ctime - inp.nodes[i].epochsecs <= StaleSeconds

(***************************************************************************)
(* C20: candidates of one root are tried newest first, across batches as   *)
(* well as inside a batch: when a candidate is validated, every strictly   *)
(* newer qualifying candidate of its root was validated before it; and     *)
(* when best_candidate returns a path, every strictly newer qualifying     *)
(* candidate of that root was validated earlier in the run and failed.     *)
(***************************************************************************)
C20_SameRootNewestFirst ==
    /\ \A c \in Validated :
          \A d \in QualifyingOf(c[1]) :
              st_mtime(d) > st_mtime(c) =>
                  (d \in Validated /\ FirstCall(d) < FirstCall(c))
    /\ Returned =>
          \A d \in QualifyingOf(result[1]) :
              st_mtime(d) > st_mtime(result) =>
                  /\ d \in Rejected
                  /\ ~PassesAll(d)
                  /\ FirstCall(d) < FirstCall(result)

C20_Witness ==
    /\ Returned
    /\ \E d \in QualifyingOf(result[1]) \ Range(batch) :
          st_mtime(d) > st_mtime(result)
    /\ \E d \in QualifyingOf(result[1]) \cap Range(batch) :
          st_mtime(d) > st_mtime(result)

====
